---- MODULE Spec2Model ----
(***************************************************************************)
(* Detection head of the two-stage detector in faster_rcnn.py: the         *)
(* proposal selector (RoIBBox), the target assigner (RoIDelta), the RoI    *)
(* pooler (RoIPooling), the inference decoder (get_valid_predictions) and  *)
(* the training data generator.                                            *)
(*                                                                         *)
(* Tensors are functions on 0..n-1, as the code indexes them.  A box is    *)
(* the tuple <<y1, x1, y2, x2>> in ticks, Unit ticks being the normalized  *)
(* coordinate 1.0.  A delta is the tuple <<dy, dx, dh, dw>>; dy and dx are *)
(* exact fractions <<n, d>> and dh, dw are logarithms, kept as the         *)
(* fraction <<n, d>> they are the logarithm of (so 0.0 is log(1/1)).       *)
(***************************************************************************)
EXTENDS Integers, Sequences, FiniteSets, TLC

VARIABLES
    pc,                   \* position of the step being run
    hyper_params,         \* the configuration dictionary
    device,               \* the kernel placement of the scatter ops
    status,               \* "ok", or the error the step raised
    \* RoIBBox / RoIDelta
    iou_thresholds, rpn_bbox_deltas, rpn_labels, gt_boxes, gt_labels,
    nms_bboxes, pos_bbox_indices, neg_bbox_indices, gt_box_indices,
    roi_bboxes, gt_labels_map, roi_bbox_deltas, roi_bbox_labels,
    \* RoIPooling
    feature_map, pooling_bbox_indices, final_pooling_feature_map,
    \* get_valid_predictions
    frcnn_delta_pred, frcnn_label_pred, valid_label_indices,
    valid_roi_bboxes, valid_pred_bboxes, valid_labels,
    \* generator
    dataset, iter_pos, yield_count, last_yield

vars == <<pc, hyper_params, device, status,
          iou_thresholds, rpn_bbox_deltas, rpn_labels, gt_boxes, gt_labels,
          nms_bboxes, pos_bbox_indices, neg_bbox_indices, gt_box_indices,
          roi_bboxes, gt_labels_map, roi_bbox_deltas, roi_bbox_labels,
          feature_map, pooling_bbox_indices, final_pooling_feature_map,
          frcnn_delta_pred, frcnn_label_pred, valid_label_indices,
          valid_roi_bboxes, valid_pred_bboxes, valid_labels,
          dataset, iter_pos, yield_count, last_yield>>

trainVars == <<iou_thresholds, rpn_bbox_deltas, rpn_labels, gt_boxes, gt_labels,
               nms_bboxes, pos_bbox_indices, neg_bbox_indices, gt_box_indices,
               gt_labels_map, roi_bbox_deltas, roi_bbox_labels>>
poolVars  == <<feature_map, pooling_bbox_indices, final_pooling_feature_map>>
predVars  == <<frcnn_delta_pred, frcnn_label_pred, valid_label_indices,
               valid_roi_bboxes, valid_pred_bboxes, valid_labels>>
genVars   == <<dataset, iter_pos, yield_count, last_yield>>

-----------------------------------------------------------------------------
(* Bounds of the model.                                                    *)

MaxBatch == 2
MaxPos == 2
MaxNeg == 2
MaxLabels == 5
MaxProposals == 2
MaxDataset == 3
MaxYields == 4

-----------------------------------------------------------------------------
(* Tensors.                                                                *)

Size(t) == Cardinality(DOMAIN t)

\* A 1-based tuple as a 0-based tensor.
T(s) == [i \in 0..(Len(s) - 1) |-> s[i + 1]]

\* tf.concat along the indexed axis.
Concat(a, b) ==
    [i \in 0..(Size(a) + Size(b) - 1) |-> IF i < Size(a) THEN a[i] ELSE b[i - Size(a)]]

\* tf.gather(params, indices, batch_dims=1).
GatherBatch(params, indices) ==
    [b \in DOMAIN indices |-> [k \in DOMAIN indices[b] |-> params[b][indices[b][k]]]]

Min(a, b) == IF a < b THEN a ELSE b
Max(a, b) == IF a > b THEN a ELSE b

RECURSIVE GCD(_, _)
GCD(a, b) == IF b = 0 THEN a ELSE GCD(b, a % b)

Abs(a) == IF a < 0 THEN -a ELSE a

\* The fraction n/d in lowest terms, d > 0.
Frac(n, d) ==
    LET g == GCD(Abs(n), Abs(d))
        s == IF d < 0 THEN -1 ELSE 1
    IN  <<(s * n) \div g, (s * d) \div g>>

-----------------------------------------------------------------------------
(* Geometry kernel (helpers, described in the specification 3 and 4.1).    *)

Unit == 10

ZeroBox == <<0, 0, 0, 0>>
PadBox == <<-Unit, -Unit, -Unit, -Unit>>

ZeroFrac == <<0, 1>>
LogOne == <<1, 1>>
ZeroDelta == <<ZeroFrac, ZeroFrac, LogOne, LogOne>>

Area(a) == Max(a[3] - a[1], 0) * Max(a[4] - a[2], 0)

Inter(a, b) ==
    Max(Min(a[3], b[3]) - Max(a[1], b[1]), 0) * Max(Min(a[4], b[4]) - Max(a[2], b[2]), 0)

Union(a, b) == Area(a) + Area(b) - Inter(a, b)

\* iou(a, b) > tenths / 10; a pair with a padding sentinel has iou 0.
IouExceeds(a, b, tenths) ==
    /\ a # PadBox
    /\ b # PadBox
    /\ Inter(a, b) * 10 > tenths * Union(a, b)

\* iou(a, b1) > iou(a, b2), by cross multiplication (0/0 counts as 0).
IouGreater(a, b1, b2) ==
    LET i1 == IF b1 = PadBox THEN 0 ELSE Inter(a, b1)
        i2 == IF b2 = PadBox THEN 0 ELSE Inter(a, b2)
        u1 == IF b1 = PadBox \/ Union(a, b1) = 0 THEN 1 ELSE Union(a, b1)
        u2 == IF b2 = PadBox \/ Union(a, b2) = 0 THEN 1 ELSE Union(a, b2)
    IN  i1 * u2 > i2 * u1

ClipCoord(c) == Max(0, Min(Unit, c))

\* decode(reference, delta): the box the delta describes, clipped to [0, 1].
get_bboxes_from_deltas(anchor, delta) ==
    LET h   == anchor[3] - anchor[1]
        w   == anchor[4] - anchor[2]
        cy2 == anchor[1] + anchor[3]
        cx2 == anchor[2] + anchor[4]
        bh  == (h * delta[3][1]) \div delta[3][2]
        bw  == (w * delta[4][1]) \div delta[4][2]
        by2 == cy2 + (2 * h * delta[1][1]) \div delta[1][2]
        bx2 == cx2 + (2 * w * delta[2][1]) \div delta[2][2]
        y1  == (by2 - bh) \div 2
        x1  == (bx2 - bw) \div 2
    IN  <<ClipCoord(y1), ClipCoord(x1),
          ClipCoord(Max(y1, (by2 + bh) \div 2)), ClipCoord(Max(x1, (bx2 + bw) \div 2))>>

\* encode(reference, target): zero where the reference or the target has no extent.
get_deltas_from_bboxes(bbox, gt_box) ==
    LET h  == bbox[3] - bbox[1]
        w  == bbox[4] - bbox[2]
        gh == gt_box[3] - gt_box[1]
        gw == gt_box[4] - gt_box[2]
        okY == h > 0 /\ gh > 0
        okX == w > 0 /\ gw > 0
    IN  <<IF okY THEN Frac((gt_box[1] + gt_box[3]) - (bbox[1] + bbox[3]), 2 * h) ELSE ZeroFrac,
          IF okX THEN Frac((gt_box[2] + gt_box[4]) - (bbox[2] + bbox[4]), 2 * w) ELSE ZeroFrac,
          IF okY THEN Frac(gh, h) ELSE LogOne,
          IF okX THEN Frac(gw, w) ELSE LogOne>>

-----------------------------------------------------------------------------
(* Region proposal inputs.  One image of the feature grid has OutHeight x  *)
(* OutWidth locations with AnchorCount anchors each; the Anchor Set is the *)
(* same for every image of a batch.                                        *)

AnchorSet == T(<< <<2, 2, 6, 6>>, <<2, 4, 6, 8>>, <<0, 0, 4, 4>>, <<6, 6, 10, 10>> >>)
TotalAnchors == Size(AnchorSet)

Half == <<1, 2>>
MinusHalf == <<-1, 2>>
LogTwo == <<2, 1>>

\* (img_output_height, img_output_width, anchor_count * 4) delta grids.
DeltasZero ==
    T(<< T(<< T(<<ZeroFrac, ZeroFrac, LogOne, LogOne, ZeroFrac, ZeroFrac, LogOne, LogOne>>),
              T(<<ZeroFrac, ZeroFrac, LogOne, LogOne, ZeroFrac, ZeroFrac, LogOne, LogOne>>) >>) >>)
DeltasMoved ==
    T(<< T(<< T(<<ZeroFrac, ZeroFrac, LogOne, LogOne, ZeroFrac, MinusHalf, LogOne, LogOne>>),
              T(<<Half, ZeroFrac, LogOne, LogOne, ZeroFrac, ZeroFrac, LogTwo, LogOne>>) >>) >>)

\* (img_output_height, img_output_width, anchor_count) foreground scores.
ScoresA == T(<< T(<< T(<<9, 8>>), T(<<7, 6>>) >>) >>)
ScoresB == T(<< T(<< T(<<6, 9>>), T(<<8, 8>>) >>) >>)

\* Dataset elements: region proposal outputs and the padded Ground-Truth Set.
ImageNoGt ==
    [deltas |-> DeltasZero, scores |-> ScoresA,
     gt_boxes |-> T(<<PadBox, PadBox>>), gt_labels |-> T(<<-1, -1>>)]
ImageOneGt ==
    [deltas |-> DeltasZero, scores |-> ScoresA,
     gt_boxes |-> T(<< <<2, 2, 6, 6>>, PadBox >>), gt_labels |-> T(<<3, -1>>)]
ImageTwoGt ==
    [deltas |-> DeltasMoved, scores |-> ScoresB,
     gt_boxes |-> T(<< <<0, 0, 4, 4>>, <<6, 6, 10, 10>> >>), gt_labels |-> T(<<1, 0>>)]
ImageMoved ==
    [deltas |-> DeltasMoved, scores |-> ScoresA,
     gt_boxes |-> T(<< <<2, 4, 6, 8>>, <<2, 2, 6, 6>> >>), gt_labels |-> T(<<2, 3>>)]

ImagePool == {ImageNoGt, ImageOneGt, ImageTwoGt, ImageMoved}

\* The largest class label of the dataset.
MaxGtLabel ==
    LET labels == UNION {{im.gt_labels[j] : j \in DOMAIN im.gt_labels} : im \in ImagePool}
    IN  CHOOSE m \in labels : \A l \in labels : l <= m

\* Overlap thresholds in tenths: NMS suppression, positive and negative matching.
ThresholdPool == {[nms |-> 7, pos |-> 5, neg |-> 1], [nms |-> 3, pos |-> 3, neg |-> 3]}

Batches == UNION {[0..(n - 1) -> ImagePool] : n \in 1..MaxBatch}

-----------------------------------------------------------------------------
(* Helpers of the proposal selector (specification 4.3).                   *)

\* tf.reshape(rpn_bbox_deltas, (batch_size, total_anchors, 4)), one image.
ReshapeDeltas(grid, total_anchors) ==
    LET W == Size(grid[0])
        A == total_anchors \div (Size(grid) * W)
    IN  [n \in 0..(total_anchors - 1) |->
            LET row == grid[n \div (W * A)][(n \div A) % W]
                a   == n % A
            IN  <<row[4 * a], row[4 * a + 1], row[4 * a + 2], row[4 * a + 3]>>]

\* tf.reshape(rpn_labels, (batch_size, total_anchors, 1)), one image.
ReshapeLabels(grid, total_anchors) ==
    LET W == Size(grid[0])
        A == total_anchors \div (Size(grid) * W)
    IN  [n \in 0..(total_anchors - 1) |-> grid[n \div (W * A)][(n \div A) % W][n % A]]

\* The indices of S by score descending, equal scores in index order.
RECURSIVE SortDesc(_, _)
SortDesc(S, scores) ==
    IF S = {} THEN <<>>
    ELSE LET best == CHOOSE i \in S : \A j \in S :
                        scores[i] > scores[j] \/ (scores[i] = scores[j] /\ i <= j)
         IN  <<best>> \o SortDesc(S \ {best}, scores)

\* Greedy suppression over the ranked candidates.
RECURSIVE NmsKeep(_, _, _, _, _, _)
NmsKeep(boxes, order, k, kept, topn, tenths) ==
    IF k > Len(order) \/ Len(kept) = topn THEN kept
    ELSE LET cand == boxes[order[k]]
             free == \A j \in 1..Len(kept) : ~IouExceeds(boxes[kept[j]], cand, tenths)
         IN  NmsKeep(boxes, order, k + 1,
                     IF free THEN Append(kept, order[k]) ELSE kept, topn, tenths)

\* Single-class NMS of one image: at most topn survivors, zero-padded to topn.
non_max_suppression(boxes, scores, topn, tenths) ==
    LET kept == NmsKeep(boxes, SortDesc(DOMAIN boxes, scores), 1, <<>>, topn, tenths)
    IN  [i \in 0..(topn - 1) |-> IF i < Len(kept) THEN boxes[kept[i + 1]] ELSE ZeroBox]

\* The members of a set of naturals, ascending.
RECURSIVE Ascending(_)
Ascending(S) ==
    IF S = {} THEN <<>>
    ELSE LET m == CHOOSE i \in S : \A j \in S : i <= j
         IN  <<m>> \o Ascending(S \ {m})

\* The ground-truth entry of best overlap with a box (the first one on ties).
BestGt(box, gt) ==
    LET real == {j \in DOMAIN gt : gt[j] # PadBox}
    IN  IF real = {} THEN 0
        ELSE CHOOSE j \in real : \A k \in real :
                \/ IouGreater(box, gt[j], gt[k])
                \/ (~IouGreater(box, gt[k], gt[j]) /\ j <= k)

\* Positive, negative and ignored survivors of one image, and the sampling
\* order: positives first, then negatives, then the rest, each by rank.
get_selected_indices(nms, gt, total_pos, total_neg, thr) ==
    LET real == {j \in DOMAIN gt : gt[j] # PadBox}
        pos  == {i \in DOMAIN nms : \E j \in real : IouExceeds(nms[i], gt[j], thr.pos)}
        neg  == {i \in DOMAIN nms \ pos :
                    \A j \in real : Inter(nms[i], gt[j]) * 10 < thr.neg * Union(nms[i], gt[j])}
        order == Ascending(pos) \o Ascending(neg) \o Ascending(DOMAIN nms \ (pos \cup neg))
        n == Size(nms)
        pidx == [k \in 0..(total_pos - 1) |-> order[k + 1]]
    IN  [pos_bbox_indices |-> pidx,
         neg_bbox_indices |-> [k \in 0..(total_neg - 1) |-> order[((total_pos + k) % n) + 1]],
         gt_box_indices |-> [k \in 0..(total_pos - 1) |-> BestGt(nms[pidx[k]], gt)],
         total_true_pos |-> Cardinality(pos)]

\* tf.zeros((batch_size, total_neg_bboxes, 4)).
ZeroBoxes(batch_size, n) == [b \in 0..(batch_size - 1) |-> [k \in 0..(n - 1) |-> ZeroBox]]

-----------------------------------------------------------------------------
(* RoIBBox.call                                                            *)

\* Variant: the gather without batch_dims, every image reading image 0.
pos_roi_bboxes_first_image(nms, indices) ==
    [b \in DOMAIN indices |-> [k \in DOMAIN indices[b] |-> nms[0][indices[b][k]]]]

\* pos_roi_bboxes = tf.gather(nms_bboxes, pos_bbox_indices, batch_dims=1)
pos_roi_bboxes(nms, indices) == GatherBatch(nms, indices)

\* Variant: the zero block sized by total_bboxes instead of total_neg_bboxes.
neg_roi_bboxes_total(batch_size, hp) ==
    ZeroBoxes(batch_size, hp.total_pos_bboxes + hp.total_neg_bboxes)

\* neg_roi_bboxes = tf.zeros((batch_size, total_neg_bboxes, 4), tf.float32)
neg_roi_bboxes(batch_size, hp) == ZeroBoxes(batch_size, hp.total_neg_bboxes)

\* roi_bboxes = tf.concat([pos_roi_bboxes, neg_roi_bboxes], axis=1)
ConcatAxis1(a, b) == [i \in DOMAIN a |-> Concat(a[i], b[i])]

RoIBBox_call ==
    /\ pc = "RoIBBox"
    /\ LET hp            == hyper_params
           anchors       == [b \in DOMAIN rpn_bbox_deltas |-> AnchorSet]
           batch_size    == Size(anchors)
           total_anchors == Size(anchors[0])
           deltas  == [b \in 0..(batch_size - 1) |-> ReshapeDeltas(rpn_bbox_deltas[b], total_anchors)]
           labels  == [b \in 0..(batch_size - 1) |-> ReshapeLabels(rpn_labels[b], total_anchors)]
           rpn_bboxes == [b \in 0..(batch_size - 1) |->
                            [n \in 0..(total_anchors - 1) |->
                                get_bboxes_from_deltas(anchors[b][n], deltas[b][n])]]
           nms == [b \in 0..(batch_size - 1) |->
                      non_max_suppression(rpn_bboxes[b], labels[b], hp.nms_topn, iou_thresholds.nms)]
           sel == [b \in 0..(batch_size - 1) |->
                      get_selected_indices(nms[b], gt_boxes[b], hp.total_pos_bboxes,
                                           hp.total_neg_bboxes, iou_thresholds)]
           pos_idx == [b \in 0..(batch_size - 1) |-> sel[b].pos_bbox_indices]
       IN  /\ nms_bboxes' = nms
           /\ pos_bbox_indices' = pos_idx
           /\ neg_bbox_indices' = [b \in 0..(batch_size - 1) |-> sel[b].neg_bbox_indices]
           /\ gt_box_indices' = [b \in 0..(batch_size - 1) |-> sel[b].gt_box_indices]
           /\ roi_bboxes' = ConcatAxis1(pos_roi_bboxes(nms, pos_idx), neg_roi_bboxes(batch_size, hp))
    /\ pc' = "RoIDelta"
    /\ UNCHANGED <<hyper_params, device, status, iou_thresholds, rpn_bbox_deltas, rpn_labels,
                   gt_boxes, gt_labels, gt_labels_map, roi_bbox_deltas, roi_bbox_labels,
                   poolVars, predVars, genVars>>

-----------------------------------------------------------------------------
(* RoIDelta.call                                                           *)

\* helpers.get_gt_boxes_map: the matched ground-truth box of every positive
\* slot, the zero box for every negative slot.
get_gt_boxes_map(boxes, indices, batch_size, total_neg) ==
    ConcatAxis1(GatherBatch(boxes, indices), ZeroBoxes(batch_size, total_neg))

\* pos_gt_labels_map = tf.gather(gt_labels, gt_box_indices, batch_dims=1)
pos_gt_labels_map(labels, indices) == GatherBatch(labels, indices)

\* Variant: the negative slots filled with label 0 instead of total_labels-1.
neg_gt_labels_map_zero(batch_size, hp) ==
    [b \in 0..(batch_size - 1) |-> [k \in 0..(hp.total_neg_bboxes - 1) |-> 0]]

\* neg_gt_labels_map = tf.fill((batch_size, total_neg_bboxes), total_labels-1)
neg_gt_labels_map(batch_size, hp) ==
    [b \in 0..(batch_size - 1) |-> [k \in 0..(hp.total_neg_bboxes - 1) |-> hp.total_labels - 1]]

\* helpers.get_tiled_indices: the image index of every row of the flat batch.
get_tiled_indices(batch_size, row_size) ==
    [r \in 0..(batch_size * row_size - 1) |-> r \div row_size]

\* tf.reshape(tf.tile(tf.range(total_bboxes), (batch_size, )), (-1, 1))
flatted_bbox_indices(batch_size, total_bboxes) ==
    [r \in 0..(batch_size * total_bboxes - 1) |-> r % total_bboxes]

\* tf.reshape(gt_labels_map, (-1, 1))
flatted_gt_labels_indices(labels_map, batch_size, total_bboxes) ==
    [r \in 0..(batch_size * total_bboxes - 1) |-> labels_map[r \div total_bboxes][r % total_bboxes]]

\* helpers.get_scatter_indices_for_bboxes: (batch_size, total_bboxes, 3).
get_scatter_indices_for_bboxes(fb, fi, fl, batch_size, total_bboxes) ==
    [b \in 0..(batch_size - 1) |->
        [i \in 0..(total_bboxes - 1) |->
            LET r == b * total_bboxes + i IN <<fb[r], fi[r], fl[r]>>]]

\* Whether an index of tf.scatter_nd lies outside the output shape.
OutOfBounds(indices, batch_size, total_bboxes, total_labels) ==
    \E b \in DOMAIN indices : \E i \in DOMAIN indices[b] :
        \/ indices[b][i][1] \notin 0..(batch_size - 1)
        \/ indices[b][i][2] \notin 0..(total_bboxes - 1)
        \/ indices[b][i][3] \notin 0..(total_labels - 1)

AddDelta(d, e) ==
    <<Frac(d[1][1] * e[1][2] + e[1][1] * d[1][2], d[1][2] * e[1][2]),
      Frac(d[2][1] * e[2][2] + e[2][1] * d[2][2], d[2][2] * e[2][2]),
      Frac(d[3][1] * e[3][1], d[3][2] * e[3][2]),
      Frac(d[4][1] * e[4][1], d[4][2] * e[4][2])>>

\* The sum of the updates written to one output cell.
RECURSIVE SumDeltas(_, _)
SumDeltas(S, updates) ==
    IF S = {} THEN ZeroDelta
    ELSE LET s == CHOOSE x \in S : TRUE
         IN  AddDelta(updates[s[1]][s[2]], SumDeltas(S \ {s}, updates))

Sources(indices, cell) ==
    {s \in {<<b, i>> : b \in DOMAIN indices, i \in DOMAIN indices[0]} :
        indices[s[1]][s[2]] = cell}

\* tf.scatter_nd(scatter_indices, roi_bbox_deltas, (batch_size, total_bboxes, total_labels, 4)):
\* cells no index names stay 0, an index outside the shape is dropped (GPU kernel).
scatter_nd_deltas(indices, updates, batch_size, total_bboxes, total_labels) ==
    [b \in 0..(batch_size - 1) |->
        [i \in 0..(total_bboxes - 1) |->
            [c \in 0..(total_labels - 1) |-> SumDeltas(Sources(indices, <<b, i, c>>), updates)]]]

\* tf.scatter_nd(scatter_indices, tf.ones((batch_size, total_bboxes), tf.int32), ...)
scatter_nd_ones(indices, batch_size, total_bboxes, total_labels) ==
    [b \in 0..(batch_size - 1) |->
        [i \in 0..(total_bboxes - 1) |->
            [c \in 0..(total_labels - 1) |-> Cardinality(Sources(indices, <<b, i, c>>))]]]

\* tf.reshape(roi_bbox_deltas, (batch_size, total_bboxes, total_labels * 4))
ReshapeClassDeltas(deltas, total_labels) ==
    [b \in DOMAIN deltas |->
        [i \in DOMAIN deltas[b] |->
            [f \in 0..(total_labels * 4 - 1) |-> deltas[b][i][f \div 4][(f % 4) + 1]]]]

Devices == {"CPU", "GPU"}

RoIDelta_call ==
    /\ pc = "RoIDelta"
    /\ \E dev \in Devices :
        LET hp           == hyper_params
            total_labels == hp.total_labels
            total_bboxes == hp.total_pos_bboxes + hp.total_neg_bboxes
            batch_size   == Size(roi_bboxes)
            gt_boxes_map == get_gt_boxes_map(gt_boxes, gt_box_indices, batch_size, hp.total_neg_bboxes)
            labels_map   == ConcatAxis1(pos_gt_labels_map(gt_labels, gt_box_indices),
                                        neg_gt_labels_map(batch_size, hp))
            deltas == [b \in 0..(batch_size - 1) |->
                          [i \in 0..(total_bboxes - 1) |->
                              get_deltas_from_bboxes(roi_bboxes[b][i], gt_boxes_map[b][i])]]
            scatter_indices ==
                get_scatter_indices_for_bboxes(
                    get_tiled_indices(batch_size, total_bboxes),
                    flatted_bbox_indices(batch_size, total_bboxes),
                    flatted_gt_labels_indices(labels_map, batch_size, total_bboxes),
                    batch_size, total_bboxes)
            raised == dev = "CPU" /\ OutOfBounds(scatter_indices, batch_size, total_bboxes, total_labels)
        IN  /\ device' = dev
            /\ gt_labels_map' = labels_map
            /\ status' = IF raised THEN "InvalidArgumentError" ELSE "ok"
            /\ roi_bbox_deltas' =
                  IF raised THEN <<>>
                  ELSE ReshapeClassDeltas(
                          scatter_nd_deltas(scatter_indices, deltas, batch_size, total_bboxes, total_labels),
                          total_labels)
            /\ roi_bbox_labels' =
                  IF raised THEN <<>>
                  ELSE scatter_nd_ones(scatter_indices, batch_size, total_bboxes, total_labels)
    /\ pc' = "done"
    /\ UNCHANGED <<hyper_params, iou_thresholds, rpn_bbox_deltas, rpn_labels, gt_boxes, gt_labels,
                   nms_bboxes, pos_bbox_indices, neg_bbox_indices, gt_box_indices, roi_bboxes,
                   poolVars, predVars, genVars>>

\* One training step of the detection head: RoIBBox, then RoIDelta (get_model).
HyperParamsTrain ==
    {hp \in [total_pos_bboxes : 1..MaxPos, total_neg_bboxes : 1..MaxNeg,
             nms_topn : 1..TotalAnchors, total_labels : 1..MaxLabels] :
        /\ hp.nms_topn >= hp.total_pos_bboxes
        /\ hp.total_labels >= MaxGtLabel + 2}

InitTrain ==
    /\ pc = "RoIBBox"
    /\ hyper_params \in HyperParamsTrain
    /\ iou_thresholds \in ThresholdPool
    /\ \E batch \in Batches :
        /\ rpn_bbox_deltas = [b \in DOMAIN batch |-> batch[b].deltas]
        /\ rpn_labels = [b \in DOMAIN batch |-> batch[b].scores]
        /\ gt_boxes = [b \in DOMAIN batch |-> batch[b].gt_boxes]
        /\ gt_labels = [b \in DOMAIN batch |-> batch[b].gt_labels]
    /\ device = "unplaced"
    /\ status = "ok"
    /\ nms_bboxes = <<>> /\ pos_bbox_indices = <<>> /\ neg_bbox_indices = <<>>
    /\ gt_box_indices = <<>> /\ roi_bboxes = <<>> /\ gt_labels_map = <<>>
    /\ roi_bbox_deltas = <<>> /\ roi_bbox_labels = <<>>
    /\ feature_map = <<>> /\ pooling_bbox_indices = <<>> /\ final_pooling_feature_map = <<>>
    /\ frcnn_delta_pred = <<>> /\ frcnn_label_pred = <<>> /\ valid_label_indices = <<>>
    /\ valid_roi_bboxes = <<>> /\ valid_pred_bboxes = <<>> /\ valid_labels = <<>>
    /\ dataset = <<>> /\ iter_pos = 0 /\ yield_count = 0 /\ last_yield = <<>>

NextTrain == RoIBBox_call \/ RoIDelta_call

SpecTrain == InitTrain /\ [][NextTrain]_vars

-----------------------------------------------------------------------------
(* RoIPooling.call                                                         *)

\* One output sample of tf.image.crop_and_resize (bilinear, extrapolation
\* value 0): crop cell (y, x) of channel ch, an exact fraction.
CropSample(img, box, y, x, ch, ph, pw) ==
    LET H  == Size(img)
        W  == Size(img[0])
        Dy == IF ph > 1 THEN Unit * (ph - 1) ELSE 2 * Unit
        Dx == IF pw > 1 THEN Unit * (pw - 1) ELSE 2 * Unit
        Ny == IF ph > 1 THEN (H - 1) * (box[1] * (ph - 1) + y * (box[3] - box[1]))
                        ELSE (H - 1) * (box[1] + box[3])
        Nx == IF pw > 1 THEN (W - 1) * (box[2] * (pw - 1) + x * (box[4] - box[2]))
                        ELSE (W - 1) * (box[2] + box[4])
        top   == Ny \div Dy
        left  == Nx \div Dx
        ly    == Ny % Dy
        lx    == Nx % Dx
        bot   == IF ly = 0 THEN top ELSE top + 1
        right == IF lx = 0 THEN left ELSE left + 1
    IN  IF Ny < 0 \/ Ny > (H - 1) * Dy \/ Nx < 0 \/ Nx > (W - 1) * Dx THEN ZeroFrac
        ELSE Frac((img[top][left][ch] * (Dx - lx) + img[top][right][ch] * lx) * (Dy - ly)
                  + (img[bot][left][ch] * (Dx - lx) + img[bot][right][ch] * lx) * ly,
                  Dy * Dx)

\* tf.image.crop_and_resize(image, boxes, box_indices, crop_size)
crop_and_resize(image, boxes, box_indices, crop_size) ==
    [r \in DOMAIN boxes |->
        [y \in 0..(crop_size[1] - 1) |->
            [x \in 0..(crop_size[2] - 1) |->
                [ch \in DOMAIN image[0][0][0] |->
                    CropSample(image[box_indices[r]], boxes[r], y, x, ch,
                               crop_size[1], crop_size[2])]]]]

\* Variant: the boxes flattened proposal-major instead of image-major.
pooling_bboxes_transposed(boxes, batch_size, total_bboxes) ==
    [r \in 0..(batch_size * total_bboxes - 1) |-> boxes[r % batch_size][r \div batch_size]]

\* pooling_bboxes = tf.reshape(roi_bboxes, (row_size, 4))
pooling_bboxes(boxes, batch_size, total_bboxes) ==
    [r \in 0..(batch_size * total_bboxes - 1) |-> boxes[r \div total_bboxes][r % total_bboxes]]

\* tf.reshape(pooling_feature_map, (batch_size, total_bboxes, ph, pw, channels))
ReshapePooled(flat, batch_size, total_bboxes) ==
    [b \in 0..(batch_size - 1) |-> [i \in 0..(total_bboxes - 1) |-> flat[b * total_bboxes + i]]]

RoIPooling_call ==
    /\ pc = "RoIPooling"
    /\ LET hp           == hyper_params
           total_bboxes == hp.total_pos_bboxes + hp.total_neg_bboxes
           batch_size   == Size(roi_bboxes)
           indices      == get_tiled_indices(batch_size, total_bboxes)
           pooled       == crop_and_resize(feature_map,
                                           pooling_bboxes(roi_bboxes, batch_size, total_bboxes),
                                           indices, hp.pooling_size)
       IN  /\ pooling_bbox_indices' = indices
           /\ final_pooling_feature_map' = ReshapePooled(pooled, batch_size, total_bboxes)
    /\ pc' = "done"
    /\ UNCHANGED <<hyper_params, device, status, roi_bboxes, feature_map,
                   trainVars, predVars, genVars>>

\* (img_output_height, img_output_width, channels) feature maps of the backbone.
FeaturePool ==
    {T(<< T(<< T(<<1>>), T(<<2>>) >>), T(<< T(<<3>>), T(<<4>>) >>) >>),
     T(<< T(<< T(<<5>>), T(<<0>>) >>), T(<< T(<<0>>), T(<<7>>) >>) >>)}

ProposalPool == {<<2, 2, 6, 6>>, <<0, 5, 10, 10>>}

PoolingSize == <<2, 2>>

HyperParamsPool ==
    [total_pos_bboxes : 1..MaxPos, total_neg_bboxes : 1..MaxNeg, pooling_size : {PoolingSize}]

\* Proposal Batches as RoIBBox lays them out: proposals, then zero boxes.
ProposalBatches(hp, batch_size) ==
    {ConcatAxis1(pos, ZeroBoxes(batch_size, hp.total_neg_bboxes)) :
        pos \in [0..(batch_size - 1) -> [0..(hp.total_pos_bboxes - 1) -> ProposalPool]]}

InitPool ==
    /\ pc = "RoIPooling"
    /\ hyper_params \in HyperParamsPool
    /\ \E batch_size \in 1..MaxBatch :
        /\ feature_map \in [0..(batch_size - 1) -> FeaturePool]
        /\ roi_bboxes \in ProposalBatches(hyper_params, batch_size)
    /\ device = "unplaced"
    /\ status = "ok"
    /\ iou_thresholds = <<>> /\ rpn_bbox_deltas = <<>> /\ rpn_labels = <<>>
    /\ gt_boxes = <<>> /\ gt_labels = <<>>
    /\ nms_bboxes = <<>> /\ pos_bbox_indices = <<>> /\ neg_bbox_indices = <<>>
    /\ gt_box_indices = <<>> /\ gt_labels_map = <<>>
    /\ roi_bbox_deltas = <<>> /\ roi_bbox_labels = <<>>
    /\ pooling_bbox_indices = <<>> /\ final_pooling_feature_map = <<>>
    /\ frcnn_delta_pred = <<>> /\ frcnn_label_pred = <<>> /\ valid_label_indices = <<>>
    /\ valid_roi_bboxes = <<>> /\ valid_pred_bboxes = <<>> /\ valid_labels = <<>>
    /\ dataset = <<>> /\ iter_pos = 0 /\ yield_count = 0 /\ last_yield = <<>>

NextPool == RoIPooling_call

SpecPool == InitPool /\ [][NextPool]_vars

-----------------------------------------------------------------------------
(* get_valid_predictions                                                   *)

\* Variant: the last index holding the largest score.
ArgMaxLast(scores) ==
    CHOOSE c \in DOMAIN scores :
        \A d \in DOMAIN scores : scores[c] > scores[d] \/ (scores[c] = scores[d] /\ c >= d)

\* tf.argmax(frcnn_label_pred, 2): the first index holding the largest score.
ArgMax(scores) ==
    CHOOSE c \in DOMAIN scores :
        \A d \in DOMAIN scores : scores[c] > scores[d] \/ (scores[c] = scores[d] /\ c <= d)

pred_labels_map(label_pred) ==
    [b \in DOMAIN label_pred |-> [i \in DOMAIN label_pred[b] |-> ArgMax(label_pred[b][i])]]

\* The coordinates <<b, i>> a predicate holds at, in row-major order.
RECURSIVE RowMajor(_, _, _)
RowMajor(S, cols, r) ==
    IF r >= Size(S) * cols THEN <<>>
    ELSE (IF S[r \div cols][r % cols] THEN << <<r \div cols, r % cols>> >> ELSE <<>>)
         \o RowMajor(S, cols, r + 1)

\* Variant: tf.equal in place of tf.not_equal.
valid_label_indices_of_equal(labels_map, total_labels) ==
    LET keep == [b \in DOMAIN labels_map |->
                    [i \in DOMAIN labels_map[b] |-> labels_map[b][i] = total_labels - 1]]
    IN  T(RowMajor(keep, Size(labels_map[0]), 0))

\* tf.where(tf.not_equal(pred_labels_map, total_labels-1))
valid_label_indices_of(labels_map, total_labels) ==
    LET keep == [b \in DOMAIN labels_map |->
                    [i \in DOMAIN labels_map[b] |-> labels_map[b][i] # total_labels - 1]]
    IN  T(RowMajor(keep, Size(labels_map[0]), 0))

\* tf.gather_nd(params, indices), the indices naming <<batch, proposal>>.
gather_nd(params, indices) ==
    [v \in DOMAIN indices |-> params[indices[v][1]][indices[v][2]]]

\* tf.reshape(valid_deltas, (total_valid_bboxes, total_labels, 4))
ReshapeValidDeltas(deltas, total_labels) ==
    [v \in DOMAIN deltas |->
        [c \in 0..(total_labels - 1) |->
            <<deltas[v][4 * c], deltas[v][4 * c + 1], deltas[v][4 * c + 2], deltas[v][4 * c + 3]>>]]

\* scatter_indices: <<position among the valid boxes, predicted label>>.
valid_scatter_indices(labels_map) == [v \in DOMAIN labels_map |-> <<v, labels_map[v]>>]

AddBox(a, b) == <<a[1] + b[1], a[2] + b[2], a[3] + b[3], a[4] + b[4]>>

RECURSIVE SumBoxes(_, _)
SumBoxes(S, updates) ==
    IF S = {} THEN ZeroBox
    ELSE LET s == CHOOSE x \in S : TRUE
         IN  AddBox(updates[s], SumBoxes(S \ {s}, updates))

\* Variant: the proposal box tiled over every class column.
scatter_nd_boxes_tiled(indices, updates, total_valid_bboxes, total_labels) ==
    [v \in 0..(total_valid_bboxes - 1) |-> [c \in 0..(total_labels - 1) |-> updates[v]]]

\* tf.scatter_nd(scatter_indices, valid_roi_bboxes, (total_valid_bboxes, total_labels, 4))
scatter_nd_boxes(indices, updates, total_valid_bboxes, total_labels) ==
    [v \in 0..(total_valid_bboxes - 1) |->
        [c \in 0..(total_labels - 1) |->
            SumBoxes({s \in DOMAIN indices : indices[s] = <<v, c>>}, updates)]]

\* tf.expand_dims(x, 0)
expand_dims(x) == [b \in {0} |-> x]

get_valid_predictions ==
    /\ pc = "get_valid_predictions"
    /\ LET total_labels == hyper_params.total_labels
           labels_map   == pred_labels_map(frcnn_label_pred)
           indices      == valid_label_indices_of(labels_map, total_labels)
           total_valid_bboxes == Size(indices)
           boxes        == gather_nd(roi_bboxes, indices)
           deltas       == ReshapeValidDeltas(gather_nd(frcnn_delta_pred, indices), total_labels)
           labels       == gather_nd(frcnn_label_pred, indices)
           valid_labels_map == gather_nd(labels_map, indices)
           scattered    == scatter_nd_boxes(valid_scatter_indices(valid_labels_map), boxes,
                                            total_valid_bboxes, total_labels)
       IN  /\ valid_label_indices' = indices
           /\ valid_roi_bboxes' = scattered
           /\ valid_pred_bboxes' =
                 expand_dims([v \in 0..(total_valid_bboxes - 1) |->
                                 [c \in 0..(total_labels - 1) |->
                                     get_bboxes_from_deltas(scattered[v][c], deltas[v][c])]])
           /\ valid_labels' = expand_dims(labels)
    /\ pc' = "done"
    /\ UNCHANGED <<hyper_params, device, status, roi_bboxes, frcnn_delta_pred, frcnn_label_pred,
                   trainVars, poolVars, genVars>>

\* Score vectors of the classification head: one peak per class, all classes
\* equal, and the background class level with the last object class.
ScorePool(total_labels) ==
    {[c \in 0..(total_labels - 1) |-> IF c = p THEN 6 ELSE 2] : p \in 0..(total_labels - 1)}
    \cup {[c \in 0..(total_labels - 1) |-> 3],
          [c \in 0..(total_labels - 1) |-> IF c >= total_labels - 2 THEN 5 ELSE 1]}

\* (total_labels * 4) delta rows of the regression head, different for every class.
DeltaRowShift(total_labels) ==
    [f \in 0..(total_labels * 4 - 1) |->
        IF f % 4 = 0 THEN (IF (f \div 4) % 2 = 0 THEN Half ELSE MinusHalf)
        ELSE IF f % 4 = 1 THEN ZeroFrac
        ELSE IF f % 4 = 2 THEN LogOne
        ELSE (IF (f \div 4) % 2 = 0 THEN LogOne ELSE LogTwo)]
DeltaRowGrow(total_labels) ==
    [f \in 0..(total_labels * 4 - 1) |->
        IF f % 4 = 0 THEN ZeroFrac
        ELSE IF f % 4 = 1 THEN (IF (f \div 4) % 2 = 0 THEN MinusHalf ELSE Half)
        ELSE IF f % 4 = 2 THEN (IF (f \div 4) % 2 = 0 THEN LogTwo ELSE LogOne)
        ELSE LogOne]

\* A proposal with the outputs of the two heads for it.
PredictionPool(total_labels) ==
    {[box |-> pr[1], deltas |-> pr[2], scores |-> sc] :
        pr \in {<<<<2, 2, 6, 6>>, DeltaRowShift(total_labels)>>,
                <<<<4, 0, 8, 4>>, DeltaRowGrow(total_labels)>>},
        sc \in ScorePool(total_labels)}

InitValid ==
    /\ pc = "get_valid_predictions"
    /\ hyper_params \in [total_labels : 2..MaxLabels]
    /\ \E n \in 1..MaxProposals :
       \E preds \in [0..(n - 1) -> PredictionPool(hyper_params.total_labels)] :
        /\ roi_bboxes = expand_dims([i \in 0..(n - 1) |-> preds[i].box])
        /\ frcnn_delta_pred = expand_dims([i \in 0..(n - 1) |-> preds[i].deltas])
        /\ frcnn_label_pred = expand_dims([i \in 0..(n - 1) |-> preds[i].scores])
    /\ device = "unplaced"
    /\ status = "ok"
    /\ iou_thresholds = <<>> /\ rpn_bbox_deltas = <<>> /\ rpn_labels = <<>>
    /\ gt_boxes = <<>> /\ gt_labels = <<>>
    /\ nms_bboxes = <<>> /\ pos_bbox_indices = <<>> /\ neg_bbox_indices = <<>>
    /\ gt_box_indices = <<>> /\ gt_labels_map = <<>>
    /\ roi_bbox_deltas = <<>> /\ roi_bbox_labels = <<>>
    /\ feature_map = <<>> /\ pooling_bbox_indices = <<>> /\ final_pooling_feature_map = <<>>
    /\ valid_label_indices = <<>>
    /\ valid_roi_bboxes = <<>> /\ valid_pred_bboxes = <<>> /\ valid_labels = <<>>
    /\ dataset = <<>> /\ iter_pos = 0 /\ yield_count = 0 /\ last_yield = <<>>

NextValid == get_valid_predictions

SpecValid == InitValid /\ [][NextValid]_vars

-----------------------------------------------------------------------------
(* generator                                                               *)

\* rpn.get_step_data(image_data, hyper_params, input_processor): the network
\* input and the region-proposal targets computed for one dataset element.
get_step_data(image_data) ==
    [input_img   |-> <<"input_processor", image_data[1]>>,
     bbox_deltas |-> <<"rpn_bbox_deltas", image_data[2]>>,
     bbox_labels |-> <<"rpn_bbox_labels", image_data[2]>>,
     anchors     |-> AnchorSet]

\* while True:
WhileTrue ==
    /\ pc = "while"
    /\ iter_pos' = 0
    /\ pc' = "for"
    /\ UNCHANGED <<hyper_params, device, status, roi_bboxes, dataset, yield_count, last_yield,
                   trainVars, poolVars, predVars>>

\* for image_data in dataset: ... yield
ForYield ==
    /\ pc = "for"
    /\ iter_pos < Size(dataset)
    /\ yield_count < MaxYields
    /\ LET image_data == dataset[iter_pos]
           step       == get_step_data(image_data)
       IN  last_yield' = << <<step.input_img, step.anchors, image_data[2], image_data[3],
                               step.bbox_deltas, step.bbox_labels>>, <<>> >>
    /\ yield_count' = yield_count + 1
    /\ iter_pos' = iter_pos + 1
    /\ pc' = "yield"
    /\ UNCHANGED <<hyper_params, device, status, roi_bboxes, dataset,
                   trainVars, poolVars, predVars>>

\* The consumer asks for the next element: the loop body resumes.
Resume ==
    /\ pc = "yield"
    /\ pc' = "for"
    /\ UNCHANGED <<hyper_params, device, status, roi_bboxes, genVars,
                   trainVars, poolVars, predVars>>

\* Variant: the generator returns after one pass over the dataset.
ForEndReturn ==
    /\ pc = "for"
    /\ iter_pos = Size(dataset)
    /\ pc' = "finished"
    /\ UNCHANGED <<hyper_params, device, status, roi_bboxes, genVars,
                   trainVars, poolVars, predVars>>

\* The dataset iterator is exhausted: back to the head of the while loop.
ForEnd ==
    /\ pc = "for"
    /\ iter_pos = Size(dataset)
    /\ pc' = "while"
    /\ UNCHANGED <<hyper_params, device, status, roi_bboxes, genVars,
                   trainVars, poolVars, predVars>>

\* Dataset elements (image, gt_boxes, gt_labels).
ElementPool ==
    {<<"image_a", ImageNoGt.gt_boxes, ImageNoGt.gt_labels>>,
     <<"image_b", ImageOneGt.gt_boxes, ImageOneGt.gt_labels>>,
     <<"image_c", ImageTwoGt.gt_boxes, ImageTwoGt.gt_labels>>}

InitGen ==
    /\ pc = "while"
    /\ dataset \in UNION {[0..(n - 1) -> ElementPool] : n \in 0..MaxDataset}
    /\ iter_pos = 0 /\ yield_count = 0 /\ last_yield = <<>>
    /\ hyper_params = <<>>
    /\ device = "unplaced"
    /\ status = "ok"
    /\ iou_thresholds = <<>> /\ rpn_bbox_deltas = <<>> /\ rpn_labels = <<>>
    /\ gt_boxes = <<>> /\ gt_labels = <<>>
    /\ nms_bboxes = <<>> /\ pos_bbox_indices = <<>> /\ neg_bbox_indices = <<>>
    /\ gt_box_indices = <<>> /\ roi_bboxes = <<>> /\ gt_labels_map = <<>>
    /\ roi_bbox_deltas = <<>> /\ roi_bbox_labels = <<>>
    /\ feature_map = <<>> /\ pooling_bbox_indices = <<>> /\ final_pooling_feature_map = <<>>
    /\ frcnn_delta_pred = <<>> /\ frcnn_label_pred = <<>> /\ valid_label_indices = <<>>
    /\ valid_roi_bboxes = <<>> /\ valid_pred_bboxes = <<>> /\ valid_labels = <<>>

NextGen == WhileTrue \/ ForYield \/ Resume \/ ForEnd

SpecGen == InitGen /\ [][NextGen]_vars

-----------------------------------------------------------------------------
(* Properties.                                                             *)

TotalBBoxes == hyper_params.total_pos_bboxes + hyper_params.total_neg_bboxes

NoRealGt(b) == \A j \in DOMAIN gt_boxes[b] : gt_boxes[b][j] = PadBox

\* The 0.0 of component f of a flat (total_labels * 4) delta row.
ZeroComponent(f) == IF f % 4 < 2 THEN ZeroFrac ELSE LogOne

\* The delta of class column c of a flat row is all zero.
ZeroColumn(row, c) == \A j \in 0..3 : row[4 * c + j] = ZeroComponent(j)

\* C1: for every image of the batch, whatever the survivors, ground-truth boxes
\* and true positives are, the Proposal Batch RoIBBox.call returns has exactly
\* total_pos_bboxes + total_neg_bboxes entries and the GT Index Map has exactly
\* total_pos_bboxes entries.
C1_SamplingCardinality ==
    pc \in {"RoIDelta", "done"} =>
        /\ DOMAIN roi_bboxes = DOMAIN gt_boxes
        /\ DOMAIN gt_box_indices = DOMAIN gt_boxes
        /\ \A b \in DOMAIN gt_boxes :
            /\ DOMAIN roi_bboxes[b] = 0..(TotalBBoxes - 1)
            /\ DOMAIN gt_box_indices[b] = 0..(hyper_params.total_pos_bboxes - 1)

\* An image with fewer true positives than total_pos_bboxes (none at all) has
\* been sampled together with an image that has some.
C1_Witness ==
    /\ pc = "RoIDelta"
    /\ hyper_params.total_pos_bboxes = 2
    /\ \E b \in DOMAIN gt_boxes :
        /\ get_selected_indices(nms_bboxes[b], gt_boxes[b], hyper_params.total_pos_bboxes,
                                hyper_params.total_neg_bboxes, iou_thresholds).total_true_pos = 0
        /\ Size(roi_bboxes[b]) = TotalBBoxes
    /\ \E b \in DOMAIN gt_boxes :
        get_selected_indices(nms_bboxes[b], gt_boxes[b], hyper_params.total_pos_bboxes,
                             hyper_params.total_neg_bboxes, iou_thresholds).total_true_pos > 0

\* C2: in the output of RoIDelta.call every proposal slot, a slot whose gathered
\* label is the padding sentinel included, has exactly one class column with
\* indicator 1, every other indicator 0, and a zero delta in every other column.
C2_ScatterExclusivity ==
    (pc = "done" /\ status = "ok") =>
        \A b \in DOMAIN roi_bbox_labels : \A i \in DOMAIN roi_bbox_labels[b] :
            \E c \in 0..(hyper_params.total_labels - 1) :
                /\ roi_bbox_labels[b][i][c] = 1
                /\ \A d \in 0..(hyper_params.total_labels - 1) \ {c} :
                    /\ roi_bbox_labels[b][i][d] = 0
                    /\ ZeroColumn(roi_bbox_deltas[b][i], d)

\* C3: every positive slot is assigned the label gt_labels[gt_box_indices[slot]]
\* of its own image and every negative slot the background class
\* total_labels - 1; the indicator is 1 at an assigned class column and 0 at
\* every other, and the delta of every non-assigned column is exactly 0.
C3_LabelAssignment ==
    pc = "done" =>
        \A b \in DOMAIN gt_labels_map : \A i \in DOMAIN gt_labels_map[b] :
            /\ i < hyper_params.total_pos_bboxes =>
                  gt_labels_map[b][i] = gt_labels[b][gt_box_indices[b][i]]
            /\ i >= hyper_params.total_pos_bboxes =>
                  gt_labels_map[b][i] = hyper_params.total_labels - 1
            /\ status = "ok" =>
                  \A c \in 0..(hyper_params.total_labels - 1) :
                      IF c = gt_labels_map[b][i]
                      THEN roi_bbox_labels[b][i][c] = 1
                      ELSE /\ roi_bbox_labels[b][i][c] = 0
                           /\ ZeroColumn(roi_bbox_deltas[b][i], c)

\* The scenario: one image, one ground-truth box (0.2, 0.2, 0.6, 0.6) of label 3,
\* total_pos = 2, total_neg = 2, total_labels = 5; indicator 1 at column 3 for the
\* positive slots, at column 4 for the negative slots, a non-zero delta at column 3.
C3_Witness ==
    /\ pc = "done" /\ status = "ok"
    /\ Size(gt_boxes) = 1
    /\ gt_boxes[0] = T(<< <<2, 2, 6, 6>>, PadBox >>)
    /\ gt_labels[0] = T(<<3, -1>>)
    /\ hyper_params.total_pos_bboxes = 2 /\ hyper_params.total_neg_bboxes = 2
    /\ hyper_params.total_labels = 5
    /\ roi_bbox_labels[0][0][3] = 1 /\ roi_bbox_labels[0][1][3] = 1
    /\ roi_bbox_labels[0][2][4] = 1 /\ roi_bbox_labels[0][3][4] = 1
    /\ ~ZeroColumn(roi_bbox_deltas[0][1], 3)

\* C4: in the output of RoIBBox.call slot k < total_pos_bboxes of an image holds
\* that image's NMS survivor at index pos_bbox_indices[k], and every later slot
\* is the zero box, whatever the negative indices are.
C4_ProposalLayout ==
    pc \in {"RoIDelta", "done"} =>
        \A b \in DOMAIN roi_bboxes : \A k \in DOMAIN roi_bboxes[b] :
            roi_bboxes[b][k] =
                IF k < hyper_params.total_pos_bboxes
                THEN nms_bboxes[b][pos_bbox_indices[b][k]]
                ELSE ZeroBox

\* Two images whose survivors differ, a positive slot that is not survivor 0,
\* and a negative index that names a survivor with a real box.
C4_Witness ==
    /\ pc = "RoIDelta"
    /\ Size(roi_bboxes) = 2
    /\ nms_bboxes[0] # nms_bboxes[1]
    /\ \E k \in DOMAIN pos_bbox_indices[1] :
        /\ pos_bbox_indices[1][k] # k
        /\ nms_bboxes[1][pos_bbox_indices[1][k]] # nms_bboxes[0][pos_bbox_indices[1][k]]
    /\ \E k \in DOMAIN neg_bbox_indices[1] : nms_bboxes[1][neg_bbox_indices[1][k]] # ZeroBox

\* C5: an image whose Ground-Truth Set holds only padding sentinels has no slot
\* treated as a positive: every slot of it is assigned the background class.
C5_ZeroGtAllBackground ==
    pc = "done" =>
        \A b \in DOMAIN gt_labels_map :
            NoRealGt(b) =>
                \A i \in DOMAIN gt_labels_map[b] :
                    gt_labels_map[b][i] = hyper_params.total_labels - 1

\* Some object class holds the largest score: the arg-max is not the background.
Foreground(scores) ==
    \E c \in DOMAIN scores \ {Size(scores) - 1} : \A d \in DOMAIN scores : scores[c] >= scores[d]

\* The least class holding the largest score.
Predicted(scores, c) ==
    /\ \A d \in DOMAIN scores : scores[c] >= scores[d]
    /\ \A d \in DOMAIN scores : d < c => scores[d] < scores[c]

\* C6: get_valid_predictions returns exactly the proposals whose arg-max class is
\* not the background class, in proposal order, each with its whole score vector.
C6_InferenceFiltering ==
    pc = "done" =>
        /\ DOMAIN valid_labels = {0}
        /\ DOMAIN valid_labels[0] = DOMAIN valid_label_indices
        /\ DOMAIN valid_pred_bboxes[0] = DOMAIN valid_label_indices
        /\ {valid_label_indices[v] : v \in DOMAIN valid_label_indices}
              = {<<0, i>> : i \in {j \in DOMAIN frcnn_label_pred[0] :
                                      Foreground(frcnn_label_pred[0][j])}}
        /\ \A v, w \in DOMAIN valid_label_indices :
              v < w => valid_label_indices[v][2] < valid_label_indices[w][2]
        /\ \A v \in DOMAIN valid_label_indices :
              valid_labels[0][v] = frcnn_label_pred[0][valid_label_indices[v][2]]

\* A background proposal ahead of a kept one whose largest score is a tie.
C6_Witness ==
    /\ pc = "done"
    /\ Size(frcnn_label_pred[0]) = 2
    /\ ~Foreground(frcnn_label_pred[0][0])
    /\ Foreground(frcnn_label_pred[0][1])
    /\ \E c, d \in DOMAIN frcnn_label_pred[0][1] :
          c # d /\ Predicted(frcnn_label_pred[0][1], c)
                /\ frcnn_label_pred[0][1][d] = frcnn_label_pred[0][1][c]
    /\ Size(valid_labels[0]) = 1
    /\ valid_labels[0][0] = frcnn_label_pred[0][1]

\* C7: when every proposal's arg-max is the background class the call completes
\* and the proposal dimension of the boxes and of the scores has length 0.
C7_EmptyDetections ==
    (pc = "done" /\ \A i \in DOMAIN frcnn_label_pred[0] : ~Foreground(frcnn_label_pred[0][i])) =>
        /\ status = "ok"
        /\ DOMAIN valid_pred_bboxes = {0} /\ DOMAIN valid_labels = {0}
        /\ Size(valid_pred_bboxes[0]) = 0
        /\ Size(valid_labels[0]) = 0

C7_Witness ==
    /\ pc = "done"
    /\ Size(frcnn_label_pred[0]) = 2
    /\ \A i \in DOMAIN frcnn_label_pred[0] : ~Foreground(frcnn_label_pred[0][i])
    /\ valid_pred_bboxes = expand_dims(<<>>)

\* RoI pooling of one box against one feature map alone.
PooledAlone(image, box) ==
    crop_and_resize(T(<<image>>), T(<<box>>), T(<<0>>), hyper_params.pooling_size)[0]

\* C8: the flat crop at row b * total_bboxes + i uses image index b, output[b][i]
\* equals pooling roi_bboxes[b][i] against feature_map[b] alone, and the output
\* has shape (batch, total_bboxes, ph, pw, C).
C8_BatchIsolation ==
    pc = "done" =>
        /\ DOMAIN final_pooling_feature_map = DOMAIN feature_map
        /\ \A b \in DOMAIN feature_map :
            /\ DOMAIN final_pooling_feature_map[b] = 0..(TotalBBoxes - 1)
            /\ \A i \in 0..(TotalBBoxes - 1) :
                /\ pooling_bbox_indices[b * TotalBBoxes + i] = b
                /\ final_pooling_feature_map[b][i] = PooledAlone(feature_map[b], roi_bboxes[b][i])
                /\ DOMAIN final_pooling_feature_map[b][i] = 0..(hyper_params.pooling_size[1] - 1)
                /\ \A y \in DOMAIN final_pooling_feature_map[b][i] :
                    /\ DOMAIN final_pooling_feature_map[b][i][y] = 0..(hyper_params.pooling_size[2] - 1)
                    /\ \A x \in DOMAIN final_pooling_feature_map[b][i][y] :
                          DOMAIN final_pooling_feature_map[b][i][y][x] = DOMAIN feature_map[b][0][0]

\* Two images with different feature maps and different proposals, where pooling
\* against the other image would give another result.
C8_Witness ==
    /\ pc = "done"
    /\ Size(feature_map) = 2
    /\ hyper_params.total_pos_bboxes = 2
    /\ roi_bboxes[0] # roi_bboxes[1]
    /\ roi_bboxes[1][0] # roi_bboxes[1][1]
    /\ final_pooling_feature_map[1][0] # PooledAlone(feature_map[0], roi_bboxes[1][0])
    /\ final_pooling_feature_map[0][1] # PooledAlone(feature_map[1], roi_bboxes[0][1])

\* The 4-value delta slice of class c in a flat (total_labels * 4) row.
DeltaSlice(row, c) == <<row[4 * c], row[4 * c + 1], row[4 * c + 2], row[4 * c + 3]>>

\* C9: for each surviving proposal the reference box of its predicted class
\* column is the proposal's box and the decoded box of that column comes from
\* that class's delta slice; the reference of every other class column is not the
\* proposal's box but the zero box, which decodes to the zero box.
C9_PredictedClassDecoding ==
    pc = "done" =>
        \A v \in DOMAIN valid_label_indices :
            LET i == valid_label_indices[v][2] IN
            \A c \in 0..(hyper_params.total_labels - 1) :
                IF Predicted(frcnn_label_pred[0][i], c)
                THEN /\ valid_roi_bboxes[v][c] = roi_bboxes[0][i]
                     /\ valid_pred_bboxes[0][v][c] =
                           get_bboxes_from_deltas(roi_bboxes[0][i], DeltaSlice(frcnn_delta_pred[0][i], c))
                ELSE /\ valid_roi_bboxes[v][c] = ZeroBox
                     /\ valid_pred_bboxes[0][v][c] = ZeroBox

\* Two surviving proposals of different boxes and classes, the second one's
\* decoded box differing from its reference.
C9_Witness ==
    /\ pc = "done"
    /\ Size(valid_label_indices) = 2
    /\ roi_bboxes[0][0] # roi_bboxes[0][1]
    /\ \E c \in 1..(hyper_params.total_labels - 2) :
        /\ Predicted(frcnn_label_pred[0][1], c)
        /\ ~Predicted(frcnn_label_pred[0][0], c)
        /\ valid_pred_bboxes[0][1][c] # roi_bboxes[0][1]
        /\ valid_pred_bboxes[0][1][c] # ZeroBox

\* C10: the generator never finishes; with a dataset of n >= 1 elements the k-th
\* yield is built from element k mod n, passes its gt_boxes and gt_labels through
\* unchanged and has the empty tuple as target; an empty dataset never yields.
C10_CyclicReplay ==
    /\ pc \in {"while", "for", "yield"}
    /\ Size(dataset) = 0 => yield_count = 0
    /\ yield_count > 0 =>
        LET image_data == dataset[(yield_count - 1) % Size(dataset)] IN
        /\ last_yield[1][1] = <<"input_processor", image_data[1]>>
        /\ last_yield[1][3] = image_data[2]
        /\ last_yield[1][4] = image_data[3]
        /\ last_yield[1][5] = <<"rpn_bbox_deltas", image_data[2]>>
        /\ last_yield[2] = <<>>

\* A second pass over a dataset of three different elements has begun.
C10_Witness ==
    /\ pc = "yield"
    /\ Size(dataset) = 3
    /\ dataset[0] # dataset[1] /\ dataset[1] # dataset[2] /\ dataset[0] # dataset[2]
    /\ yield_count = 4
    /\ last_yield[1][3] = dataset[0][2]

====
